---- MODULE Spec2Model ----
(***************************************************************************)
(* Syndrome extraction of py_qcode (src/src/py_qcode/code.py): the generic *)
(* ErrorCheck, its StabilizerCheck specialisation, ErrorCorrectingCode and *)
(* the canonical code builders.                                            *)
(*                                                                         *)
(* Python values are encoded uniformly.  A Python string is a sequence of  *)
(* one-letter strings ('XZ' is <<"X","Z">>, '' is <<>>).  A syndrome value *)
(* is a record [t, s, n]: None, a str (s) or an int (n).  The error held   *)
(* by a Point is a record [t, op]: a str label, a qecc.Pauli object or     *)
(* None.                                                                   *)
(***************************************************************************)
EXTENDS Integers, Sequences, FiniteSets, TLC

VARIABLES
    grid,       \* the primal/dual lattice pair: [kind, size]
    error,      \* primal lattice: [rep |-> type of every point.error, op |-> [point -> letter]]
    syndrome,   \* dual lattice: [dual point -> point.syndrome]
    code,       \* the ErrorCorrectingCode: [name, parity_check_list]
    raised,     \* the exception the last call ended with, "none" when it returned
    raisedAt,   \* <<check index, idx>> of the loop iteration that raised, <<0, 0>> otherwise
    hist,       \* history: every write to a dual point's syndrome, in order
    nmeas,      \* history: number of measure() calls so far
    lowUsed,    \* history: number of rand() draws below 1/2 so far
    prior       \* history: the dual syndromes before the last measure() call

vars == <<grid, error, syndrome, code, raised, raisedAt, hist, nmeas, lowUsed, prior>>

-----------------------------------------------------------------------------
(* Bounds *)

\* Non-identity errors on the test lattice of Spec.
MaxWeight == 1
\* measure() calls per run of Spec.
MaxMeasures == 2
\* rand() draws below 1/2 per run on the test lattice of Spec.
MaxLowDraws == 2
\* Non-identity errors on the toric lattice of SpecCode.
MaxToricFaults == 3
\* Non-identity errors on the square-octagon lattice of SpecCode.
MaxSquoctFaults == 1
\* Faults per run on the noisy codes of SpecNoisy: non-identity errors plus
\* rand() draws below 1/2.
MaxFaults == 1
\* measure() calls per run of SpecCode and of SpecNoisy.
MaxCodeMeasures == 1

-----------------------------------------------------------------------------
(* Python values *)

PyNone == [t |-> "none", s |-> <<>>, n |-> 0]
PyStr(s) == [t |-> "str", s |-> s, n |-> 0]
PyInt(n) == [t |-> "int", s |-> <<>>, n |-> n]

\* bool(v): None, '' and 0 are false.
Truthy(v) == (v.t = "str" /\ v.s # <<>>) \/ (v.t = "int" /\ v.n # 0)

Ok(v) == [exc |-> "none", val |-> v]
Raise(e) == [exc |-> e, val |-> PyNone]

\* a + b on syndromes (and what `a += b` assigns): str concatenation, int
\* addition; anything else is a TypeError.
Add(a, b) ==
    IF a.t = "str" /\ b.t = "str" THEN Ok(PyStr(a.s \o b.s))
    ELSE IF a.t = "int" /\ b.t = "int" THEN Ok(PyInt(a.n + b.n))
    ELSE Raise("TypeError")

-----------------------------------------------------------------------------
(* The Pauli algebra (qecc) as the code uses it *)

Letters == {"I", "X", "Y", "Z"}

PauliObj(op) == [t |-> "Pauli", op |-> op]
StrObj(op) == [t |-> "str", op |-> op]
NoneObj == [t |-> "NoneType", op |-> <<>>]

\* Single-qubit Paulis anticommute when both are non-identity and differ.
AntiSites(p, q) == {i \in 1..Len(p) : p[i] # "I" /\ q[i] # "I" /\ p[i] # q[i]}

\* commutes_with(p)(q) for two Pauli operators on the same qubits.
commutes_with(p, q) == Cardinality(AntiSites(p.op, q.op)) % 2 = 0


\* Pauli(operator) for a str operator: the Pauli with that op string.
Pauli(operator) == PauliObj(operator.op)

-----------------------------------------------------------------------------
(* Lattices *)

\* size=(2,2) of basic_decode.py: both lattices have size (size, size).
size == 2

\* The test lattice of Spec: five primal points, two dual points.
TestLattice == [kind |-> "test", size |-> 0]

\* SquareLattice(size) with its dual SquareLattice(size, is_dual=True):
\* the sites <<x, y>> of a periodic 2nx by 2ny grid, primal where x + y is
\* odd and dual where it is even.
SquareLattice(n) == [kind |-> "SquareLattice", size |-> n]

\* SquareOctagonLattice(size) with its dual UnionJackLattice(size,
\* is_dual=True): a periodic 6nx by 6ny grid with a dual point at the centre
\* of every square and octagon and a primal point at every corner.
SquareOctagonLattice(n) == [kind |-> "SquareOctagonLattice", size |-> n]

\* Ordered coordinate lists: the pairs <<x, y>>, x in xs and y in ys, x-major.
Grid(xs, ys) == [k \in 1..(Len(xs) * Len(ys)) |->
                    <<xs[((k - 1) \div Len(ys)) + 1], ys[((k - 1) % Len(ys)) + 1]>>]

Evens(n) == [k \in 1..n |-> 2 * (k - 1)]
Odds(n) == [k \in 1..n |-> 2 * (k - 1) + 1]

\* _even_evens(nx, ny), _odd_odds(nx, ny): the sublattices of a 2nx by 2ny
\* grid with both coordinates even, both odd.
_even_evens(nx, ny) == Grid(Evens(nx), Evens(ny))
_odd_odds(nx, ny) == Grid(Odds(nx), Odds(ny))

\* skew_coords(nx, ny): the sites with one coordinate even and one odd.
skew_coords(nx, ny) == Grid(Evens(nx), Odds(ny)) \o Grid(Odds(nx), Evens(ny))

\* _squoct_affine_map(coords): a cell of the 2n grid to the centre of its
\* face on the 6n grid.
_squoct_affine_map(coords) == [k \in 1..Len(coords) |-> <<3 * coords[k][1], 3 * coords[k][2]>>]

\* A site displaced by <<dx, dy>> on a periodic m by m grid.
Shift(c, dx, dy, m) == <<(c[1] + dx + m) % m, (c[2] + dy + m) % m>>

\* SquareLattice.neighbours(coord): the four sites next to a dual site.
neighbours(g, c) ==
    LET m == 2 * g.size IN
    <<Shift(c, 1, 0, m), Shift(c, m - 1, 0, m), Shift(c, 0, 1, m), Shift(c, 0, m - 1, m)>>

\* The corners of the square centred at c.
SquareCorners(g, c) ==
    LET m == 6 * g.size IN
    <<Shift(c, 1, 1, m), Shift(c, 1, m - 1, m), Shift(c, m - 1, 1, m), Shift(c, m - 1, m - 1, m)>>

\* The corners of the octagon centred at c.
OctagonCorners(g, c) ==
    LET m == 6 * g.size IN
    <<Shift(c, 1, 2, m), Shift(c, 2, 1, m), Shift(c, 2, m - 1, m), Shift(c, 1, m - 2, m),
      Shift(c, m - 1, m - 2, m), Shift(c, m - 2, m - 1, m), Shift(c, m - 2, 1, m),
      Shift(c, m - 1, 2, m)>>

\* SquareOctagonLattice.squares(), .x_octagons(), .z_octagons(): the corner
\* groups, in the order of the centres the code pairs them with.
squares(g) ==
    LET cs == _squoct_affine_map(skew_coords(g.size, g.size)) IN
    [k \in 1..Len(cs) |-> SquareCorners(g, cs[k])]
x_octagons(g) ==
    LET cs == _squoct_affine_map(_even_evens(g.size, g.size)) IN
    [k \in 1..Len(cs) |-> OctagonCorners(g, cs[k])]
z_octagons(g) ==
    LET cs == _squoct_affine_map(_odd_odds(g.size, g.size)) IN
    [k \in 1..Len(cs) |-> OctagonCorners(g, cs[k])]

Range(f) == {f[k] : k \in DOMAIN f}

\* The points of the primal lattice.
PrimalPoints(g) ==
    IF g.kind = "test" THEN 1..5
    ELSE IF g.kind = "SquareLattice"
    THEN {c \in (0..(2 * g.size - 1)) \X (0..(2 * g.size - 1)) : (c[1] + c[2]) % 2 = 1}
    ELSE UNION {Range(sq) : sq \in Range(squares(g))}

\* The points of the dual lattice.
DualPoints(g) ==
    IF g.kind = "test" THEN 1..2
    ELSE IF g.kind = "SquareLattice"
    THEN Range(_even_evens(g.size, g.size)) \cup Range(_odd_odds(g.size, g.size))
    ELSE Range(_squoct_affine_map(skew_coords(g.size, g.size)
                   \o _even_evens(g.size, g.size) \o _odd_odds(g.size, g.size)))

\* point.error of primal point p.
PointError(p) ==
    IF error.rep = "NoneType" THEN NoneObj
    ELSE [t |-> error.rep, op |-> <<error.op[p]>>]

Weight(op) == Cardinality({p \in DOMAIN op : op[p] # "I"})

-----------------------------------------------------------------------------
(* code.py, utility functions *)

\* letter_flip(synd, letter)
letter_flip(synd, letter) ==
    IF synd = PyStr(<<letter>>) THEN Ok(PyStr(<<>>))
    ELSE IF synd = PyStr(<<>>) THEN Ok(PyStr(<<letter>>))
    ELSE Raise("ValueError")

z_flip(synd) == letter_flip(synd, "Z")

x_flip(synd) == letter_flip(synd, "X")

\* _sum(iterable) = reduce(lambda a, b: a + b, iterable) on a list of point
\* errors: str labels concatenate; an empty list, or adding operands that
\* have no +, is a TypeError.
_sum(errs) ==
    IF errs = <<>> THEN [exc |-> "TypeError", val |-> NoneObj]
    ELSE IF Len(errs) = 1 THEN [exc |-> "none", val |-> errs[1]]
    ELSE IF \A i \in 1..Len(errs) : errs[i].t = "str"
         THEN LET acc[i \in 1..Len(errs)] ==
                      IF i = 1 THEN errs[1].op ELSE acc[i - 1] \o errs[i].op
              IN  [exc |-> "none", val |-> StrObj(acc[Len(errs)])]
    ELSE [exc |-> "TypeError", val |-> NoneObj]

-----------------------------------------------------------------------------
(* ErrorCheck.__init__ *)

\* The default noise_model (0., lambda a: a).  prob is in units of 1/2.
DefaultNoise == [prob |-> 0, func |-> "identity"]

\* func(syndrome) of a noise_model.
NoiseFunc(func, synd) ==
    IF func = "z_flip" THEN z_flip(synd)
    ELSE IF func = "x_flip" THEN x_flip(synd)
    ELSE Ok(synd)

\* noise_func(syndrome): val = rand(); a draw is low (0) or high (1/2).
noise_func(noise_model, synd, low) ==
    LET val == IF low THEN 0 ELSE 1 IN
    IF val < noise_model.prob THEN NoiseFunc(noise_model.func, synd)
    ELSE Ok(synd)

\* Whether noise_func's draw fell below prob.
Flipped(noise_model, low) == (IF low THEN 0 ELSE 1) < noise_model.prob

ErrorCheck(primal_sets, dual_points, rule, noise_model) ==
    [cls |-> "ErrorCheck", primal_sets |-> primal_sets,
     dual_points |-> dual_points, rule |-> rule, noise_model |-> noise_model,
     stabilizer |-> NoneObj, indy_css |-> FALSE]

-----------------------------------------------------------------------------
(* StabilizerCheck.__init__ *)

\* A variant of syn_str that names a stabilizer's own type: 'X' for an
\* all-X stabilizer, 'Z' for an all-Z one.
syn_str_own(stabilizer) ==
    IF \A i \in 1..Len(stabilizer.op) : stabilizer.op[i] = "X" THEN "X"
    ELSE IF \A i \in 1..Len(stabilizer.op) : stabilizer.op[i] = "Z" THEN "Z"
    ELSE ""

\* syn_str of stab_rule: the letter a CSS stabilizer reports, "" when the
\* stabilizer is neither all-X nor all-Z.
syn_str(stabilizer) ==
    IF \A i \in 1..Len(stabilizer.op) : stabilizer.op[i] = "X" THEN "Z"
    ELSE IF \A i \in 1..Len(stabilizer.op) : stabilizer.op[i] = "Z" THEN "X"
    ELSE ""

\* A variant of stab_rule that lets a mixed CSS stabilizer pass, reporting
\* ''.
stab_rule_lenient(stabilizer, indy_css, err_str, castOk) ==
    IF ~indy_css THEN
        IF err_str.t = "str" \/ (err_str.t = "Pauli" /\ castOk)
        THEN Ok(PyInt(1 - (IF commutes_with(stabilizer, Pauli(err_str)) THEN 1 ELSE 0)))
        ELSE Raise("TypeError")
    ELSE IF err_str.t \notin {"str", "Pauli"} THEN Raise("TypeError")
    ELSE LET err_pauli == IF err_str.t = "str" THEN Pauli(err_str) ELSE err_str
             letter == syn_str(stabilizer)
         IN  IF letter # "" /\ ~commutes_with(stabilizer, err_pauli)
             THEN Ok(PyStr(<<letter>>))
             ELSE Ok(PyStr(<<>>))

\* A variant of stab_rule whose binary mode reports int(commutes) instead
\* of 1 - int(commutes).
stab_rule_inverted(stabilizer, indy_css, err_str, castOk) ==
    IF ~indy_css THEN
        IF err_str.t = "str" \/ (err_str.t = "Pauli" /\ castOk)
        THEN Ok(PyInt(IF commutes_with(stabilizer, Pauli(err_str)) THEN 1 ELSE 0))
        ELSE Raise("TypeError")
    ELSE IF err_str.t \notin {"str", "Pauli"} THEN Raise("TypeError")
    ELSE LET err_pauli == IF err_str.t = "str" THEN Pauli(err_str) ELSE err_str
             letter == syn_str(stabilizer)
         IN  IF letter = "" THEN Raise("ValueError")
             ELSE IF ~commutes_with(stabilizer, err_pauli) THEN Ok(PyStr(<<letter>>))
             ELSE Ok(PyStr(<<>>))

\* stab_rule(err_str): the rule closure of a StabilizerCheck.  castOk is
\* what qecc's Pauli(...) does when handed a Pauli object instead of a str,
\* which the sources do not settle: accept it (TRUE) or raise (FALSE).
stab_rule(stabilizer, indy_css, err_str, castOk) ==
    IF ~indy_css THEN
        IF err_str.t = "str" \/ (err_str.t = "Pauli" /\ castOk)
        THEN Ok(PyInt(1 - (IF commutes_with(stabilizer, Pauli(err_str)) THEN 1 ELSE 0)))
        ELSE Raise("TypeError")
    ELSE IF err_str.t \notin {"str", "Pauli"} THEN Raise("TypeError")
    ELSE LET err_pauli == IF err_str.t = "str" THEN Pauli(err_str) ELSE err_str
             letter == syn_str(stabilizer)
         IN  IF letter = "" THEN Raise("ValueError")
             ELSE IF ~commutes_with(stabilizer, err_pauli) THEN Ok(PyStr(<<letter>>))
             ELSE Ok(PyStr(<<>>))

\* StabilizerCheck(primal_sets, dual_points, stabilizer, noise_model,
\* indy_css): a str stabilizer is cast to a Pauli; nothing is validated.
StabilizerCheck(primal_sets, dual_points, stabilizer, noise_model, indy_css) ==
    [cls |-> "StabilizerCheck", primal_sets |-> primal_sets,
     dual_points |-> dual_points,
     rule |-> [kind |-> "function", name |-> "stab_rule"],
     noise_model |-> noise_model,
     stabilizer |-> PauliObj(stabilizer), indy_css |-> indy_css]

-----------------------------------------------------------------------------
(* Rules a caller hands to ErrorCheck *)

\* A lookup table for bit-flip errors on four points: it has an entry for
\* every label over I and X, and none for a label holding Y or Z.
x_parity_table ==
    [k \in [1..4 -> {"I", "X"}] |->
        IF Cardinality({i \in 1..4 : k[i] = "X"}) % 2 = 1
        THEN PyStr(<<"X">>) ELSE PyStr(<<>>)]

\* A function rule: the parity of the X and Y letters of the label.
x_parity(err_str) ==
    IF Cardinality({i \in 1..Len(err_str.op) : err_str.op[i] \in {"X", "Y"}}) % 2 = 1
    THEN Ok(PyStr(<<"X">>)) ELSE Ok(PyStr(<<>>))

DictRule == [kind |-> "dict", name |-> "x_parity_table"]
FunctionRule == [kind |-> "function", name |-> "x_parity"]
\* Neither a dict nor a function (rule=None).
OtherRule == [kind |-> "other", name |-> "None"]

\* A variant of the table lookup that answers '' for a missing key, as
\* self.rule.get(error_str, '') would.
rule_getitem_default(key) ==
    IF key \notin DOMAIN x_parity_table THEN Ok(PyStr(<<>>))
    ELSE Ok(x_parity_table[key])

\* self.rule[error_str] for a rule that is a dict: a missing key raises
\* KeyError.
rule_getitem(key) ==
    IF key \notin DOMAIN x_parity_table THEN Raise("KeyError")
    ELSE Ok(x_parity_table[key])

\* self.rule(error_str) for a rule that is a function.
CallRule(check, err_str, castOk) ==
    IF check.rule.name = "stab_rule"
    THEN stab_rule(check.stabilizer, check.indy_css, err_str, castOk)
    ELSE x_parity(err_str)

-----------------------------------------------------------------------------
(* evaluate() *)

\* The state an evaluation threads through its loop: the dual syndromes,
\* the history of writes, and the exception that ended it.
EvalState(syn, h) == [syn |-> syn, hist |-> h, exc |-> "none", at |-> <<0, 0>>]

\* A variant of the write that always assigns: `point.syndrome = r`.
Accumulate_overwrite(before, r) == Ok(r)

\* `point.syndrome = r` when the syndrome is None, `point.syndrome += r`
\* otherwise.
Accumulate(before, r) == IF before = PyNone THEN Ok(r) ELSE Add(before, r)

\* The noisy result written for a computed syndrome: noise_func, then the
\* accumulation into the point's syndrome.
NoiseAndWrite(check, before, computed, low) ==
    LET r == noise_func(check.noise_model, computed, low) IN
    IF r.exc # "none" THEN [exc |-> r.exc, result |-> PyNone, after |-> before]
    ELSE LET w == Accumulate(before, r.val) IN
         [exc |-> w.exc, result |-> r.val, after |-> w.val]

\* One pass of the loop body of ErrorCheck.evaluate (lines 59-84).
ErrorCheck_body(check, idx, before, low, castOk) ==
    IF idx > Len(check.primal_sets)
    THEN [exc |-> "IndexError", computed |-> PyNone, result |-> PyNone, after |-> before]
    ELSE
    LET group == check.primal_sets[idx]
        error_str == _sum([k \in 1..Len(group) |-> PointError(group[k])])
        fail(e) == [exc |-> e, computed |-> PyNone, result |-> PyNone, after |-> before]
        done(c) == LET w == NoiseAndWrite(check, before, c, low) IN
                   [exc |-> w.exc, computed |-> c, result |-> w.result, after |-> w.after]
    IN  IF error_str.exc # "none" THEN fail(error_str.exc)
        ELSE IF check.rule.kind = "dict"
        THEN LET c == rule_getitem(error_str.val.op) IN
             IF c.exc # "none" THEN fail(c.exc) ELSE done(c.val)
        ELSE IF check.rule.kind = "function"
        THEN LET c == CallRule(check, error_str.val, castOk) IN
             IF c.exc # "none" THEN fail(c.exc) ELSE done(c.val)
        ELSE fail("TypeError")

\* One pass of the loop of StabilizerCheck.evaluate for Pauli errors
\* (lines 135-140).
Pauli_body(check, idx, before, low, castOk) ==
    IF idx > Len(check.primal_sets)
    THEN [exc |-> "IndexError", computed |-> PyNone, result |-> PyNone, after |-> before]
    ELSE
    LET group == check.primal_sets[idx]
        \* reduce(p1.tens(p2)) over the one-qubit errors of the group: the
        \* Pauli with the error of the k-th point as its k-th letter.
        multi_bit_error == PauliObj([k \in 1..Len(group) |-> error.op[group[k]]])
        c == CallRule(check, multi_bit_error, castOk)
    IN  IF c.exc # "none"
        THEN [exc |-> c.exc, computed |-> PyNone, result |-> PyNone, after |-> before]
        ELSE LET w == NoiseAndWrite(check, before, c.val, low) IN
             [exc |-> w.exc, computed |-> c.val, result |-> w.result, after |-> w.after]

\* One pass of `for idx, point in enumerate(self.dual_points)`: the body,
\* then the write to the point and its record in the history.  ci is the
\* check's place in the code's list, lows the slots <<ci, idx>> whose
\* rand() draw is low.
LoopPass(check, pauli, ci, idx, st, lows, castOk) ==
    LET point == check.dual_points[idx]
        low == <<ci, idx>> \in lows
        b == IF pauli THEN Pauli_body(check, idx, st.syn[point], low, castOk)
             ELSE ErrorCheck_body(check, idx, st.syn[point], low, castOk)
    IN  IF b.exc # "none" THEN [st EXCEPT !.exc = b.exc, !.at = <<ci, idx>>]
        ELSE [st EXCEPT !.syn[point] = b.after,
                        !.hist = Append(@, [meas |-> nmeas + 1, ci |-> ci, idx |-> idx,
                            point |-> point, before |-> st.syn[point],
                            computed |-> b.computed,
                            flipped |-> Flipped(check.noise_model, low),
                            result |-> b.result, after |-> b.after])]

\* A variant of the loop that stops one dual point short.
EvalLoop_short(check, pauli, ci, st, lows, castOk) ==
    LET loop[i \in 0..Len(check.dual_points)] ==
            IF i = 0 THEN st
            ELSE LET prev == loop[i - 1] IN
                 IF prev.exc # "none" THEN prev
                 ELSE LoopPass(check, pauli, ci, i, prev, lows, castOk)
    IN  loop[IF check.dual_points = <<>> THEN 0 ELSE Len(check.dual_points) - 1]

\* for idx, point in enumerate(self.dual_points): ...; an exception ends
\* the loop.
EvalLoop(check, pauli, ci, st, lows, castOk) ==
    LET loop[i \in 0..Len(check.dual_points)] ==
            IF i = 0 THEN st
            ELSE LET prev == loop[i - 1] IN
                 IF prev.exc # "none" THEN prev
                 ELSE LoopPass(check, pauli, ci, i, prev, lows, castOk)
    IN  loop[Len(check.dual_points)]

\* ErrorCheck.evaluate()
ErrorCheck_evaluate(check, ci, st, lows, castOk) ==
    EvalLoop(check, FALSE, ci, st, lows, castOk)

\* StabilizerCheck.evaluate(): the error on the first point of the first
\* group picks the branch; an error that is neither a str nor a Pauli
\* picks none, and the call returns.
StabilizerCheck_evaluate(check, ci, st, lows, castOk) ==
    IF check.primal_sets = <<>> \/ check.primal_sets[1] = <<>>
    THEN [st EXCEPT !.exc = "IndexError", !.at = <<ci, 0>>]
    ELSE LET test_error == PointError(check.primal_sets[1][1]) IN
         IF test_error.t = "str" THEN ErrorCheck_evaluate(check, ci, st, lows, castOk)
         ELSE IF test_error.t = "Pauli" THEN EvalLoop(check, TRUE, ci, st, lows, castOk)
         ELSE st

\* check.evaluate(), dispatched on the check's class.
evaluate(check, ci, st, lows, castOk) ==
    IF check.cls = "StabilizerCheck" THEN StabilizerCheck_evaluate(check, ci, st, lows, castOk)
    ELSE ErrorCheck_evaluate(check, ci, st, lows, castOk)

-----------------------------------------------------------------------------
(* ErrorCorrectingCode *)

ErrorCorrectingCode(parity_check_list, name) ==
    [name |-> name, parity_check_list |-> parity_check_list]

NoCode == ErrorCorrectingCode(<<>>, "none")

\* for check in self.parity_check_list: check.evaluate(), from the state
\* st; an exception ends the pass.
MeasureFrom(list, st, lows, castOk) ==
    LET pass[ci \in 0..Len(list)] ==
            IF ci = 0 THEN st
            ELSE LET prev == pass[ci - 1] IN
                 IF prev.exc # "none" THEN prev
                 ELSE evaluate(list[ci], ci, prev, lows, castOk)
    IN  pass[Len(list)]

\* ErrorCorrectingCode.measure() on the current lattices.
measure(list, lows, castOk) ==
    MeasureFrom(list, EvalState(syndrome, hist), lows, castOk)

-----------------------------------------------------------------------------
(* code.py, the canonical codes *)

Stab(letter, n) == [k \in 1..n |-> letter]

\* A variant of toric_code whose plaquette check reports to the stars'
\* dual points.
toric_code_shared(g) ==
    LET star_coords == _even_evens(g.size, g.size)
        star_primal == [k \in 1..Len(star_coords) |-> neighbours(g, star_coords[k])]
        star_check == StabilizerCheck(star_primal, star_coords, Stab("X", 4),
                                      DefaultNoise, TRUE)
        plaq_coords == _odd_odds(g.size, g.size)
        plaq_primal == [k \in 1..Len(plaq_coords) |-> neighbours(g, plaq_coords[k])]
        plaq_check == StabilizerCheck(plaq_primal, star_coords, Stab("Z", 4),
                                      DefaultNoise, TRUE)
    IN  ErrorCorrectingCode(<<star_check, plaq_check>>, "Toric Code")

\* toric_code(primal_grid, dual_grid)
toric_code(g) ==
    LET star_coords == _even_evens(g.size, g.size)
        star_duals == star_coords
        star_primal == [k \in 1..Len(star_coords) |-> neighbours(g, star_coords[k])]
        star_check == StabilizerCheck(star_primal, star_duals, Stab("X", 4),
                                      DefaultNoise, TRUE)
        plaq_coords == _odd_odds(g.size, g.size)
        plaq_duals == plaq_coords
        plaq_primal == [k \in 1..Len(plaq_coords) |-> neighbours(g, plaq_coords[k])]
        plaq_check == StabilizerCheck(plaq_primal, plaq_duals, Stab("Z", 4),
                                      DefaultNoise, TRUE)
    IN  ErrorCorrectingCode(<<star_check, plaq_check>>, "Toric Code")

\* square_octagon_code(primal_grid, dual_grid)
square_octagon_code(g) ==
    LET sq_coords == _squoct_affine_map(skew_coords(g.size, g.size))
        sq_duals == sq_coords
        sq_primal == squares(g)
        sq_check_X == StabilizerCheck(sq_primal, sq_duals, Stab("X", 4), DefaultNoise, TRUE)
        sq_check_Z == StabilizerCheck(sq_primal, sq_duals, Stab("Z", 4), DefaultNoise, TRUE)
        x_oct_coords == _squoct_affine_map(_even_evens(g.size, g.size))
        x_oct_check == StabilizerCheck(x_octagons(g), x_oct_coords, Stab("X", 8),
                                       DefaultNoise, TRUE)
        z_oct_coords == _squoct_affine_map(_odd_odds(g.size, g.size))
        z_oct_check == StabilizerCheck(z_octagons(g), z_oct_coords, Stab("Z", 8),
                                       DefaultNoise, TRUE)
    IN  ErrorCorrectingCode(<<sq_check_Z, sq_check_X, x_oct_check, z_oct_check>>,
                            "Square-Octagon Code")

\* A variant pairing an X-type stabilizer with x_flip.
XStabilizerFlip_x == "x_flip"

\* The flip functions the noisy builders pair with an X-type and with a
\* Z-type stabilizer.
XStabilizerFlip == "z_flip"
ZStabilizerFlip == "x_flip"

\* noisy_toric_code(primal_grid, dual_grid, error_rate)
noisy_toric_code(g, error_rate) ==
    LET star_coords == _even_evens(g.size, g.size)
        star_primal == [k \in 1..Len(star_coords) |-> neighbours(g, star_coords[k])]
        star_check == StabilizerCheck(star_primal, star_coords, Stab("X", 4),
                          [prob |-> error_rate, func |-> XStabilizerFlip], TRUE)
        plaq_coords == _odd_odds(g.size, g.size)
        plaq_primal == [k \in 1..Len(plaq_coords) |-> neighbours(g, plaq_coords[k])]
        plaq_check == StabilizerCheck(plaq_primal, plaq_coords, Stab("Z", 4),
                          [prob |-> error_rate, func |-> ZStabilizerFlip], TRUE)
    IN  ErrorCorrectingCode(<<star_check, plaq_check>>, "Noisy Toric Code")

\* noisy_squoct_code(primal_grid, dual_grid, error_rate)
noisy_squoct_code(g, error_rate) ==
    LET sq_coords == _squoct_affine_map(skew_coords(g.size, g.size))
        sq_primal == squares(g)
        sq_check_X == StabilizerCheck(sq_primal, sq_coords, Stab("X", 4),
                          [prob |-> error_rate, func |-> XStabilizerFlip], TRUE)
        sq_check_Z == StabilizerCheck(sq_primal, sq_coords, Stab("Z", 4),
                          [prob |-> error_rate, func |-> ZStabilizerFlip], TRUE)
        x_oct_coords == _squoct_affine_map(_even_evens(g.size, g.size))
        x_oct_check == StabilizerCheck(x_octagons(g), x_oct_coords, Stab("X", 8),
                          [prob |-> error_rate, func |-> XStabilizerFlip], TRUE)
        z_oct_coords == _squoct_affine_map(_odd_odds(g.size, g.size))
        z_oct_check == StabilizerCheck(z_octagons(g), z_oct_coords, Stab("Z", 8),
                          [prob |-> error_rate, func |-> ZStabilizerFlip], TRUE)
    IN  ErrorCorrectingCode(<<sq_check_Z, sq_check_X, x_oct_check, z_oct_check>>,
                            "Noisy Square-Octagon Code")

\* error_rate, in units of 1/2: 0., 0.5 and 1.
ErrorRates == {0, 1, 2}

-----------------------------------------------------------------------------
(* The inputs of Spec: one check, built by a caller on the test lattice *)

G1 == <<1, 2, 3, 4>>
G2 == <<2, 3, 4, 5>>

PrimalSetChoices == {<<>>, <<G1>>, <<G1, G2>>}

\* <<1, 1>>: two groups of one check reporting to the same dual point.
DualPointChoices == {<<>>, <<1>>, <<1, 2>>, <<1, 1>>}

StabilizerChoices == {<<"X", "X", "X", "X">>, <<"Z", "Z", "Z", "Z">>, <<"X", "Z", "Z", "X">>}

NoiseChoices ==
    {DefaultNoise, [prob |-> 1, func |-> "z_flip"], [prob |-> 1, func |-> "x_flip"]}

CheckChoices ==
    {StabilizerCheck(ps, dp, stab, nm, css) :
        ps \in PrimalSetChoices, dp \in DualPointChoices, stab \in StabilizerChoices,
        nm \in NoiseChoices, css \in BOOLEAN}
    \cup
    {ErrorCheck(ps, dp, rule, nm) :
        ps \in PrimalSetChoices, dp \in DualPointChoices,
        rule \in {DictRule, FunctionRule, OtherRule},
        nm \in {DefaultNoise, [prob |-> 1, func |-> "x_flip"]}}

\* The letter assignments with at most w non-identity errors.
RECURSIVE OpsUpTo(_, _)
OpsUpTo(points, w) ==
    IF w <= 0 THEN {[p \in points |-> "I"]}
    ELSE LET prev == OpsUpTo(points, w - 1) IN
         prev \cup {[o EXCEPT ![p] = l] : o \in prev, p \in points, l \in {"X", "Y", "Z"}}

\* Error patterns an error model leaves on a lattice: one representation
\* for every point, at most w non-identity errors.
ErrorPatterns(points, w, reps) ==
    {[rep |-> r, op |-> op] : r \in reps \ {"NoneType"}, op \in OpsUpTo(points, w)}
    \cup {[rep |-> r, op |-> [p \in points |-> "I"]] : r \in reps \cap {"NoneType"}}

-----------------------------------------------------------------------------
(* Noise draws *)

\* The evaluations <<ci, idx>> of one measure() whose draw matters: those
\* of a check whose noise probability is strictly between 0 and 1.
NoisySlots(list) ==
    UNION {IF list[ci].noise_model.prob = 1
           THEN {<<ci, idx>> : idx \in 1..Len(list[ci].dual_points)} ELSE {} :
           ci \in 1..Len(list)}

RECURSIVE SubsetsUpTo(_, _)
SubsetsUpTo(S, k) ==
    IF k <= 0 THEN {{}}
    ELSE LET prev == SubsetsUpTo(S, k - 1) IN
         prev \cup {F \cup {x} : F \in prev, x \in S}

\* Low draws the run may still take.
LowBudget ==
    IF grid.kind = "test" THEN MaxLowDraws - lowUsed
    ELSE MaxFaults - Weight(error.op) - lowUsed

\* What Pauli(...) does with a Pauli object matters only to a binary
\* StabilizerCheck evaluated on Pauli errors.
CastChoices ==
    IF error.rep = "Pauli" /\ \E ci \in 1..Len(code.parity_check_list) :
          LET c == code.parity_check_list[ci] IN
          c.cls = "StabilizerCheck" /\ ~c.indy_css
    THEN BOOLEAN ELSE {TRUE}

-----------------------------------------------------------------------------
(* Actions *)

Init ==
    /\ grid = TestLattice
    /\ error \in ErrorPatterns(PrimalPoints(grid), MaxWeight, {"str", "Pauli", "NoneType"})
    /\ syndrome = [d \in DualPoints(grid) |-> PyNone]
    /\ code = NoCode
    /\ raised = "none"
    /\ raisedAt = <<0, 0>>
    /\ hist = <<>>
    /\ nmeas = 0
    /\ lowUsed = 0
    /\ prior = syndrome

\* A caller builds one check and wraps it in a code.
Construct ==
    /\ code = NoCode
    /\ \E check \in CheckChoices :
          code' = ErrorCorrectingCode(<<check>>, "Un-named")
    /\ UNCHANGED <<grid, error, syndrome, raised, raisedAt, hist, nmeas, lowUsed, prior>>

\* code.measure(), the run's calls being at most limit.
MeasureUpTo(limit) ==
    /\ code # NoCode
    /\ raised = "none"
    /\ nmeas < limit
    /\ \E lows \in SubsetsUpTo(NoisySlots(code.parity_check_list), LowBudget),
          castOk \in CastChoices :
          \E st \in {measure(code.parity_check_list, lows, castOk)} :
          /\ syndrome' = st.syn
          /\ hist' = st.hist
          /\ raised' = st.exc
          /\ raisedAt' = st.at
          /\ lowUsed' = lowUsed + Cardinality(lows)
    /\ prior' = syndrome
    /\ nmeas' = nmeas + 1
    /\ UNCHANGED <<grid, error, code>>

Measure == MeasureUpTo(MaxMeasures)

Next == Construct \/ Measure

Spec == Init /\ [][Next]_vars

-----------------------------------------------------------------------------
(* The canonical codes on the lattices of basic_decode.py *)

\* The lattices are built and an error model has acted on the primal one,
\* leaving Pauli objects: at most toric errors on the toric lattice, squoct
\* on the square-octagon one.
Lattices(toric, squoct) ==
    /\ grid \in {SquareLattice(size), SquareOctagonLattice(size)}
    /\ error \in ErrorPatterns(PrimalPoints(grid),
                    IF grid.kind = "SquareLattice" THEN toric ELSE squoct, {"Pauli"})
    /\ syndrome = [d \in DualPoints(grid) |-> PyNone]
    /\ code = NoCode
    /\ raised = "none"
    /\ raisedAt = <<0, 0>>
    /\ hist = <<>>
    /\ nmeas = 0
    /\ lowUsed = 0
    /\ prior = syndrome

InitCode == Lattices(MaxToricFaults, MaxSquoctFaults)

\* One of the noise-free builders makes the code for the lattice pair.
Build ==
    /\ code = NoCode
    /\ \/ grid.kind = "SquareLattice" /\ code' = toric_code(grid)
       \/ grid.kind = "SquareOctagonLattice" /\ code' = square_octagon_code(grid)
    /\ UNCHANGED <<grid, error, syndrome, raised, raisedAt, hist, nmeas, lowUsed, prior>>

MeasureCode == MeasureUpTo(MaxCodeMeasures)

NextCode == Build \/ MeasureCode

SpecCode == InitCode /\ [][NextCode]_vars

InitNoisy == Lattices(MaxFaults, MaxFaults)

\* One of the noisy builders makes the code for the lattice pair.
BuildNoisy ==
    /\ code = NoCode
    /\ \E error_rate \in ErrorRates :
          \/ grid.kind = "SquareLattice" /\ code' = noisy_toric_code(grid, error_rate)
          \/ grid.kind = "SquareOctagonLattice"
               /\ code' = noisy_squoct_code(grid, error_rate)
    /\ UNCHANGED <<grid, error, syndrome, raised, raisedAt, hist, nmeas, lowUsed, prior>>

NextNoisy == BuildNoisy \/ MeasureCode

SpecNoisy == InitNoisy /\ [][NextNoisy]_vars

-----------------------------------------------------------------------------
(* Properties of one check (Spec) *)

\* The check of the code a caller built in Spec.
TheCheck == code.parity_check_list[1]

HasCheck == code # NoCode

\* The letters on a group of primal points, in the group's order.
GroupOp(group) == [k \in 1..Len(group) |-> error.op[group[k]]]

\* The group holds exactly one non-identity error, the given letter.
WeightOne(group, letter) ==
    \E k \in 1..Len(group) :
        /\ error.op[group[k]] = letter
        /\ \A j \in 1..Len(group) : j # k => error.op[group[j]] = "I"

ErrorFree == \A p \in DOMAIN error.op : error.op[p] = "I"

Events == {hist[k] : k \in 1..Len(hist)}

IsCssCheck(check, stab) ==
    check.cls = "StabilizerCheck" /\ check.indy_css /\ check.stabilizer.op = stab

XXXX == <<"X", "X", "X", "X">>

\* What the rule of an 'XXXX' CSS check computed for a weight-1 error, with
\* the label the anticommuting case is said to give.
CssLabels(label) ==
    \A e \in Events :
        LET check == code.parity_check_list[e.ci]
            group == check.primal_sets[e.idx]
        IN  IsCssCheck(check, XXXX) =>
              /\ WeightOne(group, "Z") => e.computed = PyStr(<<label>>)
              /\ WeightOne(group, "X") => e.computed = PyStr(<<>>)
              /\ (e.before = PyNone /\ ~e.flipped) => e.after = e.computed

\* C1 (as stated): an 'XXXX' CSS check reports a weight-1 Z error with the
\* label 'X' and a weight-1 X error with ''.
C1_AsStated == CssLabels("X")

\* C1 (amended): an 'XXXX' CSS check reports a weight-1 Z error, which
\* anticommutes with it, with the label 'Z' (the type of the error), and a
\* weight-1 X error, which commutes, with ''; without noise that label is
\* what a cleared dual point then holds.
C1_CssLabel == CssLabels("Z")

C1_Witness ==
    \E e \in Events :
        LET check == code.parity_check_list[e.ci] IN
        /\ IsCssCheck(check, XXXX)
        /\ WeightOne(check.primal_sets[e.idx], "Z")
        /\ e.before = PyNone /\ ~e.flipped
        /\ syndrome[e.point] = PyStr(<<"Z">>)

\* Groups of a lookup-table check, on str errors, that the table has no
\* entry for and that evaluate() gets to.
Unmapped(check) ==
    {i \in 1..Len(check.dual_points) :
        i <= Len(check.primal_sets)
        /\ GroupOp(check.primal_sets[i]) \notin DOMAIN x_parity_table}

\* The syndrome a dual point held after the last write of the history to it.
RECURSIVE LastAfter(_, _)
LastAfter(h, d) ==
    IF h = <<>> THEN PyNone
    ELSE IF h[Len(h)].point = d THEN h[Len(h)].after
    ELSE LastAfter(SubSeq(h, 1, Len(h) - 1), d)

\* C2: a lookup-table check whose table lacks the combined error of group i
\* ends evaluate() with KeyError at i, has written nothing for i, and leaves
\* dual_points[i] as the earlier writes left it.
C2_UnmappedAborts ==
    (HasCheck /\ nmeas >= 1 /\ error.rep = "str"
        /\ TheCheck.rule.kind = "dict" /\ TheCheck.primal_sets # <<>>
        /\ Unmapped(TheCheck) # {}) =>
    LET i == CHOOSE j \in Unmapped(TheCheck) : \A k \in Unmapped(TheCheck) : j <= k
        d == TheCheck.dual_points[i]
    IN  /\ raised = "KeyError"
        /\ raisedAt = <<1, i>>
        /\ \A e \in Events : e.idx < i
        /\ syndrome[d] = LastAfter(hist, d)
        /\ (\A e \in Events : e.point # d) => syndrome[d] = PyNone

\* The unmapped group reports to a dual point that an earlier group of the
\* same pass has written.
C2_Witness ==
    /\ HasCheck /\ raised = "KeyError" /\ raisedAt = <<1, 2>>
    /\ TheCheck.rule.kind = "dict"
    /\ TheCheck.dual_points = <<1, 1>>
    /\ syndrome[1] = PyStr(<<>>)
    /\ Len(hist) = 1

MixedCss(check) ==
    check.cls = "StabilizerCheck" /\ check.indy_css /\ syn_str(check.stabilizer) = ""

\* C3 (as stated): no CSS-mode check with a mixed stabilizer exists, its
\* construction being rejected.
C3_AsStated == HasCheck => ~MixedCss(TheCheck)

\* C3 (amended): a CSS-mode check with a mixed stabilizer is constructed
\* without complaint; it is rejected with ValueError by the first rule
\* application of evaluate() (errors that are str or Pauli, at least one
\* group and one dual point), and it never writes a syndrome.
C3_RejectedAtFirstUse ==
    (HasCheck /\ MixedCss(TheCheck)) =>
        /\ hist = <<>>
        /\ \A d \in DOMAIN syndrome : syndrome[d] = PyNone
        /\ (nmeas >= 1 /\ error.rep \in {"str", "Pauli"}
              /\ TheCheck.primal_sets # <<>> /\ TheCheck.dual_points # <<>>) =>
                 (raised = "ValueError" /\ raisedAt = <<1, 1>>)

C3_Witness ==
    /\ HasCheck /\ MixedCss(TheCheck)
    /\ nmeas = 1 /\ raised = "ValueError"
    /\ \A d \in DOMAIN syndrome : syndrome[d] = PyNone

\* The combination of two syndromes, None being "no syndrome".
Combine(acc, r) ==
    IF acc = PyNone THEN r
    ELSE IF acc.t = "str" THEN PyStr(acc.s \o r.s)
    ELSE PyInt(acc.n + r.n)

\* The in-order combination of every result the history wrote to d.
RECURSIVE Replay(_, _)
Replay(h, d) ==
    IF h = <<>> THEN PyNone
    ELSE LET acc == Replay(SubSeq(h, 1, Len(h) - 1), d)
             e == h[Len(h)]
         IN  IF e.point = d THEN Combine(acc, e.result) ELSE acc

\* C4: every write sets the noisy result on a point without syndrome and
\* otherwise adds it to the syndrome the point held, so a dual point holds
\* the in-order combination of every result written to it.
C4_Accumulates ==
    /\ \A k \in 1..Len(hist) :
          /\ hist[k].before = LastAfter(SubSeq(hist, 1, k - 1), hist[k].point)
          /\ hist[k].after = Combine(hist[k].before, hist[k].result)
    /\ \A d \in DOMAIN syndrome : syndrome[d] = Replay(hist, d)

\* A dual point written more than once, its first contribution still there.
C4_Witness ==
    \E d \in DOMAIN syndrome :
        /\ Cardinality({k \in 1..Len(hist) : hist[k].point = d}) >= 3
        /\ \E k \in 1..Len(hist) : hist[k].point = d /\ Truthy(hist[k].result)
                 /\ hist[k].before = PyNone
        /\ Truthy(syndrome[d])

\* C5 (as stated): StabilizerCheck.evaluate() on errors that are neither
\* str nor Pauli fails with a surfaced error.
C5_AsStated ==
    (HasCheck /\ nmeas >= 1 /\ TheCheck.cls = "StabilizerCheck"
        /\ Len(TheCheck.primal_sets) = Len(TheCheck.dual_points)
        /\ TheCheck.dual_points # <<>> /\ error.rep = "NoneType") =>
    raised # "none"

\* C6 (as stated): evaluate() of a check whose primal_sets and dual_points
\* differ in length does not complete normally (here on str errors, with at
\* least one dual point).
C6_AsStated ==
    (HasCheck /\ nmeas >= 1 /\ error.rep = "str" /\ TheCheck.dual_points # <<>>
        /\ Len(TheCheck.primal_sets) # Len(TheCheck.dual_points)) =>
    raised # "none"

Noiseless == \A ci \in 1..Len(code.parity_check_list) :
    code.parity_check_list[ci].noise_model.prob = 0

\* C9: measuring a noise-free code on an error-free lattice, once or twice
\* in a row, leaves no dual point with a syndrome, in the CSS and in the
\* binary mode.
C9_NoSyndromes ==
    (ErrorFree /\ Noiseless) => \A d \in DOMAIN syndrome : ~Truthy(syndrome[d])

\* Two measurements of a binary check have both reported to a dual point.
C9_Witness ==
    /\ HasCheck /\ ErrorFree /\ Noiseless /\ error.rep = "str"
    /\ TheCheck.cls = "StabilizerCheck" /\ ~TheCheck.indy_css
    /\ nmeas = 2 /\ raised = "none"
    /\ syndrome[1] = PyInt(0)
    /\ Cardinality({k \in 1..Len(hist) : hist[k].point = 1}) >= 2

-----------------------------------------------------------------------------
(* Properties of the canonical codes (SpecCode) *)

\* The dual points check ci of the code writes.
Targets(ci) == Range(code.parity_check_list[ci].dual_points)

Disjoint(ci, cj) == Targets(ci) \cap Targets(cj) = {}

\* The orderings of the code's check list, as lists of places in it.
Orderings == Permutations(1..Len(code.parity_check_list))

\* The pairs of checks, in the builder's order, that share a target.
Sharers ==
    {c \in (1..Len(code.parity_check_list)) \X (1..Len(code.parity_check_list)) :
        c[1] < c[2] /\ ~Disjoint(c[1], c[2])}

\* The place of check ci in the ordering p.
Place(p, ci) == CHOOSE k \in DOMAIN p : p[k] = ci

\* The ordering keeps the two checks of every pair in their order.
Keeps(p, pairs) == \A c \in pairs : Place(p, c[1]) < Place(p, c[2])

\* The dual syndromes measure() leaves when the check list is taken in the
\* ordering p, from the syndromes the last measure() started on.
MeasuredInOrder(p) ==
    MeasureFrom([k \in DOMAIN p |-> code.parity_check_list[p[k]]],
                EvalState(prior, <<>>), {}, TRUE).syn

Measured == code # NoCode /\ nmeas >= 1 /\ raised = "none"

\* C7 (as stated): after measure() of a canonical code the dual syndromes
\* are the same for every ordering of its check list.
C7_AsStated ==
    Measured => \A p \in Orderings : MeasuredInOrder(p) = syndrome

\* C7 (amended): the two checks of toric_code write disjoint dual points;
\* in square_octagon_code the two square checks write the same dual points
\* and every other two checks disjoint ones; after measure() the dual
\* syndromes are the same for every ordering of the check list that keeps
\* the two square checks in their order.
C7_OrderIndependent ==
    /\ code.name = "Toric Code" => Disjoint(1, 2)
    /\ code.name = "Square-Octagon Code" =>
          /\ Targets(1) = Targets(2)
          /\ \A ci, cj \in 1..4 : (ci < cj /\ <<ci, cj>> # <<1, 2>>) => Disjoint(ci, cj)
    /\ Measured =>
          LET pairs == Sharers IN
          \A p \in Orderings : Keeps(p, pairs) => MeasuredInOrder(p) = syndrome

\* A square of the square-octagon code holds the labels of both square
\* checks, and an octagon one of its own.
C7_Witness ==
    /\ code.name = "Square-Octagon Code" /\ Measured
    /\ \E d \in Targets(1) : syndrome[d] = PyStr(<<"X", "Z">>)
    /\ \E d \in Targets(3) \cup Targets(4) : Truthy(syndrome[d])

\* The number of dual points among ds that carry a syndrome.
Carrying(ds) == Cardinality({d \in ds : Truthy(syndrome[d])})

\* C8: after one measure() of the toric code from cleared syndromes, the
\* number of syndrome-carrying dual points is even among the star checks'
\* points (even-even coordinates) and even among the plaquette checks'
\* points (odd-odd coordinates).
C8_ToricParity ==
    (code.name = "Toric Code" /\ nmeas = 1 /\ raised = "none") =>
        /\ Carrying(Range(_even_evens(grid.size, grid.size))) % 2 = 0
        /\ Carrying(Range(_odd_odds(grid.size, grid.size))) % 2 = 0

\* Three errors leave two stars and two plaquettes with a syndrome.
C8_Witness ==
    /\ code.name = "Toric Code" /\ nmeas = 1 /\ raised = "none"
    /\ Weight(error.op) = 3
    /\ Carrying(Range(_even_evens(grid.size, grid.size))) = 2
    /\ Carrying(Range(_odd_odds(grid.size, grid.size))) = 2

-----------------------------------------------------------------------------
(* Properties of the noisy codes (SpecNoisy) *)

\* The complement of a syndrome of a check that emits letter.
Complement(synd, letter) ==
    IF synd = PyStr(<<>>) THEN PyStr(<<letter>>) ELSE PyStr(<<>>)

\* C10: in the noisy codes no measure() raises, and every write is of a
\* computed syndrome that is '' or the letter the check's rule emits; the
\* value accumulated into the dual point is the computed syndrome when the
\* draw is not below error_rate and its complement when it is; the flip
\* acts on the computed syndrome, the result being added to what the point
\* held; flipping twice gives the computed syndrome back; with error_rate 0
\* nothing is flipped.
C10_NoisyFlips ==
    /\ raised = "none"
    /\ \A e \in Events :
          LET check == code.parity_check_list[e.ci]
              letter == syn_str(check.stabilizer)
              func == check.noise_model.func
              once == NoiseFunc(func, e.computed)
          IN  /\ e.computed \in {PyStr(<<>>), PyStr(<<letter>>)}
              /\ e.result = (IF e.flipped THEN Complement(e.computed, letter)
                             ELSE e.computed)
              /\ e.after = Combine(e.before, e.result)
              /\ once.exc = "none"
              /\ NoiseFunc(func, once.val) = Ok(e.computed)
              /\ check.noise_model.prob = 0 => ~e.flipped

\* At error_rate 1/2 a low draw has flipped the '' of the second square
\* check to its letter, on a square the first square check had written,
\* and another draw was high.
C10_Witness ==
    /\ code.name = "Noisy Square-Octagon Code" /\ raised = "none"
    /\ \E e \in Events :
          /\ code.parity_check_list[e.ci].noise_model.prob = 1
          /\ e.ci = 2 /\ e.flipped /\ e.before # PyNone
          /\ e.computed = PyStr(<<>>) /\ e.result = PyStr(<<"Z">>)
    /\ \E e \in Events : ~e.flipped

====
